---- MODULE Spec2Model ----
(***************************************************************************)
(* Model of the request orchestrator of mova ai (services/gemini.ts):      *)
(* chatWithGemini, analyzeImage, editImage, generateImage, their           *)
(* retry/fallback loops and the shared error classification                *)
(* handleGeminiError.                                                      *)
(*                                                                         *)
(* One invocation of an operation is a chain of steps separated by its     *)
(* awaits: the backend call and the inter-attempt delay.  The backend is   *)
(* the environment: it answers each call with any response or failure of   *)
(* the bounded sets below.                                                 *)
(*                                                                         *)
(* A message string is modelled as the sequence of its fragments;          *)
(* String.includes(marker) is "some fragment is the marker".  A text is    *)
(* the sequence of its characters, "" is <<>>, += is \o.                   *)
(***************************************************************************)
EXTENDS Integers, Sequences, FiniteSets, TLC

\* ---------------------------------------------------------------- bounds
MaxMsgLen == 2      \* fragments in a backend failure message
MaxParts == 2       \* content parts in the first result candidate
MaxCands == 1       \* result candidates in a backend response
MaxSubmits == 1     \* submissions accepted in one session

\* ------------------------------------------------------ program constants
maxAttempts == 2    \* editImage
defaultRetries == 5 \* generateImageWithRetry(..., retries = 5)

chatModels == <<"gemini-3.1-pro-preview", "gemini-3-flash-preview", "gemini-flash-lite-latest">>
analyzeModels == <<"gemini-3-flash-preview", "gemini-2.5-flash-image">>
imageModel == "gemini-2.5-flash-image"

\* ------------------------------------------------------------- messages
Fragments == {"429", "quota", "Rate limit", "API_KEY_INVALID", "API key not valid",
              "SAFETY", "blocked", "network", "fetch", "oops"}
Messages == UNION {[1..n -> Fragments] : n \in 0..MaxMsgLen}
Statuses == {0, 429, 500}      \* 0: the failure carries no status

includes(message, marker) == \E k \in DOMAIN message : message[k] = marker

\* Error objects.  status 0 / code "" mean the property is absent.
RawError(m, s) == [gemini |-> FALSE, message |-> m, status |-> s, code |-> ""]
GeminiError(m, c) == [gemini |-> TRUE, message |-> m, status |-> 0, code |-> c]
NoError == [gemini |-> FALSE, message |-> <<>>, status |-> 0, code |-> "none"]

missingKeyError == RawError(<<"GEMINI_API_KEY is not set">>, 0)
emptyResponseError == GeminiError(<<"The model returned an empty response.">>, "EMPTY_RESPONSE")
emptyAnalysisError == GeminiError(<<"The model returned an empty analysis.">>, "EMPTY_RESPONSE")
noCandidatesError ==
    GeminiError(<<"No image was generated. The request might have been ", "blocked", ".">>,
                "NO_CANDIDATES")

\* Variant: the quota rule is tested before the safety rule.
handleGeminiError_quotaFirst(error) ==
    LET message == IF error.message # <<>> THEN error.message
                   ELSE <<"An unexpected error occurred">>
        status == error.status
    IN  IF includes(message, "API_KEY_INVALID") \/ includes(message, "API key not valid")
        THEN GeminiError(<<"The provided API key is invalid. Please check your configuration.">>,
                         "AUTH_ERROR")
        ELSE IF status = 429 \/ includes(message, "quota")
        THEN GeminiError(<<"Rate limit exceeded. The system is currently busy. Please wait about 30-60 seconds before trying again.">>,
                         "RATE_LIMIT")
        ELSE IF includes(message, "SAFETY") \/ includes(message, "blocked")
        THEN GeminiError(<<"The request was blocked by safety filters. Please try a different prompt.">>,
                         "SAFETY_ERROR")
        ELSE IF includes(message, "network") \/ includes(message, "fetch")
        THEN GeminiError(<<"Network error. Please check your internet connection.">>,
                         "NETWORK_ERROR")
        ELSE GeminiError(message, "UNKNOWN_ERROR")

\* handleGeminiError never returns: the value is the GeminiError it throws.
\* status = error.status || error.code: a string code is never === 429.
handleGeminiError(error) ==
    LET message == IF error.message # <<>> THEN error.message
                   ELSE <<"An unexpected error occurred">>
        status == error.status
    IN  IF includes(message, "API_KEY_INVALID") \/ includes(message, "API key not valid")
        THEN GeminiError(<<"The provided API key is invalid. Please check your configuration.">>,
                         "AUTH_ERROR")
        ELSE IF includes(message, "SAFETY") \/ includes(message, "blocked")
        THEN GeminiError(<<"The request was blocked by safety filters. Please try a different prompt.">>,
                         "SAFETY_ERROR")
        ELSE IF status = 429 \/ includes(message, "quota")
        THEN GeminiError(<<"Rate limit exceeded. The system is currently busy. Please wait about 30-60 seconds before trying again.">>,
                         "RATE_LIMIT")
        ELSE IF includes(message, "network") \/ includes(message, "fetch")
        THEN GeminiError(<<"Network error. Please check your internet connection.">>,
                         "NETWORK_ERROR")
        ELSE GeminiError(message, "UNKNOWN_ERROR")

\* Variant: an empty response counts as worth a fallback.
isRateLimit_orEmpty(error) ==
    LET errMsg == error.message
    IN  \/ includes(errMsg, "429") \/ includes(errMsg, "quota") \/ includes(errMsg, "Rate limit")
        \/ error.code = "EMPTY_RESPONSE"

\* The retry pre-check of chatWithGemini, analyzeImage and editImage.
isRateLimit(error) ==
    LET errMsg == error.message
    IN  includes(errMsg, "429") \/ includes(errMsg, "quota") \/ includes(errMsg, "Rate limit")

\* The retry pre-check of generateImageWithRetry.
genIsRateLimit(error) ==
    \/ error.status = 429
    \/ (error.message # <<>> /\ (\/ includes(error.message, "429")
                                 \/ includes(error.message, "quota")
                                 \/ includes(error.message, "Rate limit")))

\* ------------------------------------------------------------ responses
Texts == {<<>>, <<"a">>, <<"b">>}
Part(d, t) == [inlineData |-> d, text |-> t]
Parts == {Part("img1", <<>>), Part("img2", <<>>), Part("", <<"a">>), Part("", <<"b">>)}
PartLists == UNION {[1..n -> Parts] : n \in 0..MaxParts}

Resp(ty, e, t, n, p) == [type |-> ty, error |-> e, text |-> t, ncand |-> n, parts |-> p]
NoResp == Resp("none", NoError, <<>>, 0, <<>>)
Failures == {Resp("failure", RawError(m, s), <<>>, 0, <<>>) : m \in Messages, s \in Statuses}
TextResponses == {Resp("text", NoError, t, 0, <<>>) : t \in Texts}
\* Only candidates[0] is read: the other candidates are kept as a count.
ContentResponses ==
    {Resp("content", NoError, <<>>, 0, <<>>)} \cup
    {Resp("content", NoError, <<>>, n, p) : n \in 1..MaxCands, p \in PartLists}

\* Variant: a textual part replaces the text read so far.
RECURSIVE extractParts_assign(_, _, _)
extractParts_assign(parts, image, text) ==
    IF parts = <<>> THEN [image |-> image, text |-> text]
    ELSE LET part == Head(parts)
         IN  IF part.inlineData # ""
             THEN extractParts_assign(Tail(parts), part.inlineData, text)
             ELSE IF part.text # <<>>
             THEN extractParts_assign(Tail(parts), image, part.text)
             ELSE extractParts_assign(Tail(parts), image, text)

\* The for-loop over candidates[0].content.parts.
RECURSIVE extractParts(_, _, _)
extractParts(parts, image, text) ==
    IF parts = <<>> THEN [image |-> image, text |-> text]
    ELSE LET part == Head(parts)
         IN  IF part.inlineData # ""
             THEN extractParts(Tail(parts), part.inlineData, text)
             ELSE IF part.text # <<>>
             THEN extractParts(Tail(parts), image, text \o part.text)
             ELSE extractParts(Tail(parts), image, text)

\* ---------------------------------------------------------------- state
VARIABLES
    apiKey,     \* process.env.GEMINI_API_KEY is set
    op,         \* the operation running: "none", "chat", "analyzeImage", "editImage", "generateImage"
    pc,         \* "idle", "calling" (backend call in flight), "delaying", "done"
    i,          \* loop index of chatWithGemini / analyzeImage
    attempts,   \* editImage
    retries,    \* generateImageWithRetry
    lastResp,   \* what the last completed backend call gave; NoResp while a call is in flight
    log,        \* observed: backend calls and delays of this invocation, in order
    hist,       \* observed: one digest per completed backend call
    outcome,    \* what the invocation gave its caller
    \* ChatInterface (components/ChatInterface.tsx)
    messages,       \* useState<Message[]>
    input,          \* useState('')
    isLoading,      \* useState(false)
    selectedImage,  \* useState<string | null>(null); "" is null
    imageMimeType,  \* useState<string>('')
    isEditingMode,  \* useState(false)
    clock,          \* Date.now() at its last reading
    sub,            \* what the handleSubmit awaiting its operation has captured
    inFlight,       \* observed: operations dispatched by handleSubmit and not yet settled
    \* two invocations side by side
    script,         \* observed: what the backend answered to this invocation, in order
    prev            \* observed: an earlier invocation, as remembered for comparison

orchVars == <<apiKey, op, pc, i, attempts, retries, lastResp, log, hist, outcome>>
uiVars == <<messages, input, isLoading, selectedImage, imageMimeType, isEditingMode,
            clock, sub, inFlight>>
twinVars == <<script, prev>>
vars == <<apiKey, op, pc, i, attempts, retries, lastResp, log, hist, outcome,
          messages, input, isLoading, selectedImage, imageMimeType, isEditingMode,
          clock, sub, inFlight, script, prev>>

Call(m) == [ev |-> "call", model |-> m, ms |-> 0]
Delay(ms) == [ev |-> "delay", model |-> "", ms |-> ms]

NoOutcome == [kind |-> "none", error |-> NoError, text |-> <<>>, image |-> ""]
Returned(t, img) == [kind |-> "return", error |-> NoError, text |-> t, image |-> img]
Thrown(e) == [kind |-> "throw", error |-> e, text |-> <<>>, image |-> ""]
ReturnedUndefined == [kind |-> "undefined", error |-> NoError, text |-> <<>>, image |-> ""]

\* What an observer of the backend sees of one settled call.  A failure is
\* told apart by its message ("429", "quota" or "Rate limit" in it) and, for
\* the rest, by its status; for generateImage, whose claims speak of
\* rate-limit failures of either sort, the two are one digest.
HasRateMarker(message) ==
    \E k \in DOMAIN message : message[k] \in {"429", "quota", "Rate limit"}

Digest(o, resp) ==
    IF resp.type = "text" THEN (IF resp.text # <<>> THEN "ok" ELSE "empty")
    ELSE IF resp.type = "content" THEN (IF resp.ncand > 0 THEN "ok" ELSE "noCandidates")
    ELSE IF o = "generateImage"
    THEN (IF HasRateMarker(resp.error.message) \/ resp.error.status = 429
          THEN "rateLimit" ELSE "failure")
    ELSE IF HasRateMarker(resp.error.message) THEN "rateLimitMsg"
    ELSE IF resp.error.status = 429 THEN "status429"
    ELSE "failure"

\* ------------------------------------------------- ChatInterface: values
\* Message.image is a data URL `data:${mime};base64,${data}`; NoImage is undefined.
DataUrl(mime, data) == [mime |-> mime, data |-> data]
NoImage == DataUrl("", "")
Message(id, role, content, image, isError, errorCode) ==
    [id |-> id, role |-> role, content |-> content, image |-> image,
     isError |-> isError, errorCode |-> errorCode]
greeting == Message(1, "assistant", <<"Hello, I am **mova ai**.">>, NoImage, FALSE, "")

\* What the user can type and upload.
Inputs == {<<>>, <<" ">>, <<"h", "i">>}
FileTypes == {"image/png", "image/jpeg"}
uploadedImage == "u1"
\* Milliseconds between two readings of Date.now(): none, or some.
Elapsed == {0, 1}
\* Nothing reads the clock before the first submit, so the first reading
\* is where time starts; every later one is some Elapsed after the last.
SinceLastReading == IF Len(messages) = 1 THEN {0} ELSE Elapsed

\* String.prototype.trim
RECURSIVE trimStart(_)
trimStart(str) == IF str # <<>> /\ Head(str) = " " THEN trimStart(Tail(str)) ELSE str
RECURSIVE trimEnd(_)
trimEnd(str) ==
    IF str # <<>> /\ str[Len(str)] = " " THEN trimEnd(SubSeq(str, 1, Len(str) - 1)) ELSE str
trim(str) == trimEnd(trimStart(str))

\* The constants of the handleSubmit closure that is awaiting its operation.
Sub(o, image, prompt, mimeType, editing) ==
    [op |-> o, image |-> image, prompt |-> prompt, mimeType |-> mimeType,
     isEditingMode |-> editing]
NoSub == Sub("none", "", <<>>, "", FALSE)

\* What is remembered of an invocation that has ended.
Remembered(o, answers, events, result) ==
    [op |-> o, script |-> answers, log |-> events, outcome |-> result]
NoPrev == Remembered("none", <<>>, <<>>, NoOutcome)

\* Variant: the client is built without looking at the key.
getGeminiModelThrows_never == FALSE

\* getGeminiModel(): if (!apiKey) throw new Error("GEMINI_API_KEY is not set")
getGeminiModelThrows == ~apiKey

Init ==
    /\ apiKey \in BOOLEAN
    /\ op = "none"
    /\ pc = "idle"
    /\ i = 0
    /\ attempts = 0
    /\ retries = defaultRetries
    /\ lastResp = NoResp
    /\ log = <<>>
    /\ hist = <<>>
    /\ outcome = NoOutcome
    /\ messages = <<greeting>>
    /\ input = <<>>
    /\ isLoading = FALSE
    /\ selectedImage = ""
    /\ imageMimeType = ""
    /\ isEditingMode = FALSE
    /\ clock = greeting.id + 1
    /\ sub = NoSub
    /\ inFlight = 0
    /\ script = <<>>
    /\ prev = NoPrev

\* --------------------------------------------- chatWithGemini, analyzeImage
\* Variant: && in place of ||.
fallbackMustRaise_and(error, idx, models) ==
    ~isRateLimit(error) /\ idx = Len(models) - 1

\* Variant: the last candidate is not told apart, so its rate-limit failure
\* is waited on before the loop ends.
fallbackMustRaise_noLast(error, idx, models) == ~isRateLimit(error)

\* Variant: the last-candidate test is off by one.
fallbackMustRaise_early(error, idx, models) ==
    ~isRateLimit(error) \/ idx = Len(models) - 2

\* if (!isRateLimit || i === models.length - 1) handleGeminiError(error);
fallbackMustRaise(error, idx, models) ==
    ~isRateLimit(error) \/ idx = Len(models) - 1

\* Variant: on the last candidate an aggregate error is raised in place of
\* the classification of the failure at hand.
fallbackCatch_aggregate(error, models) ==
    IF fallbackMustRaise(error, i, models)
    THEN /\ outcome' = Thrown(IF i = Len(models) - 1
                              THEN GeminiError(<<"All models failed.">>, "RATE_LIMIT")
                              ELSE handleGeminiError(error))
         /\ pc' = "done"
         /\ log' = log
    ELSE /\ log' = Append(log, Delay(1000))
         /\ pc' = "delaying"
         /\ outcome' = outcome

\* The catch block of the candidate loop: raise the classified error, or
\* start the 1000 ms wait before the next candidate.
fallbackCatch(error, models) ==
    IF fallbackMustRaise(error, i, models)
    THEN /\ outcome' = Thrown(handleGeminiError(error))
         /\ pc' = "done"
         /\ log' = log
    ELSE /\ log' = Append(log, Delay(1000))
         /\ pc' = "delaying"
         /\ outcome' = outcome

\* Entry up to the first await: getGeminiModel() throws inside the try when
\* the key is absent (its message has no rate-limit marker, so the catch
\* raises it), otherwise the first candidate is called.
fallbackEnter(o, models) ==
    /\ pc \in {"idle", "done"}
    /\ op' = o
    /\ i' = 0
    /\ attempts' = 0
    /\ retries' = defaultRetries
    /\ lastResp' = NoResp
    /\ hist' = <<>>
    /\ apiKey' = apiKey
    /\ IF ~getGeminiModelThrows
       THEN /\ log' = <<Call(models[1])>>
            /\ pc' = "calling"
            /\ outcome' = NoOutcome
       ELSE /\ pc' = "done"
            /\ log' = <<>>
            /\ outcome' = Thrown(handleGeminiError(missingKeyError))

\* Variant: the inter-model delay is also waited before a text is returned.
fallbackSettle_delayed(o, models, emptyError, resp) ==
    /\ pc = "calling"
    /\ op = o
    /\ lastResp' = resp
    /\ hist' = Append(hist, Digest(op, resp))
    /\ UNCHANGED <<apiKey, op, i, attempts, retries>>
    /\ IF resp.type = "text" /\ resp.text # <<>>
       THEN /\ outcome' = Returned(resp.text, "")
            /\ pc' = "done"
            /\ log' = Append(log, Delay(1000))
       ELSE fallbackCatch(IF resp.type = "text" THEN emptyError ELSE resp.error, models)

\* The awaited call settles: return the text, or run the catch block on the
\* failure (an empty text throws the EMPTY_RESPONSE GeminiError into it).
fallbackSettle(o, models, emptyError, resp) ==
    /\ pc = "calling"
    /\ op = o
    /\ lastResp' = resp
    /\ hist' = Append(hist, Digest(op, resp))
    /\ UNCHANGED <<apiKey, op, i, attempts, retries>>
    /\ IF resp.type = "text" /\ resp.text # <<>>
       THEN /\ outcome' = Returned(resp.text, "")
            /\ pc' = "done"
            /\ log' = log
       ELSE fallbackCatch(IF resp.type = "text" THEN emptyError ELSE resp.error, models)

\* Variant: the next iteration calls the first candidate again.
fallbackResume_same(o, models) ==
    /\ pc = "delaying"
    /\ op = o
    /\ i' = i + 1
    /\ UNCHANGED <<apiKey, op, attempts, retries, hist>>
    /\ IF i + 1 < Len(models)
       THEN /\ log' = Append(log, Call(models[1]))
            /\ pc' = "calling"
            /\ lastResp' = NoResp
            /\ outcome' = outcome
       ELSE /\ outcome' = Thrown(handleGeminiError(lastResp.error))
            /\ pc' = "done"
            /\ UNCHANGED <<log, lastResp>>

\* The delay elapses: i++, and the next iteration calls models[i]; past the
\* list, handleGeminiError(lastError).
fallbackResume(o, models) ==
    /\ pc = "delaying"
    /\ op = o
    /\ i' = i + 1
    /\ UNCHANGED <<apiKey, op, attempts, retries, hist>>
    /\ IF i + 1 < Len(models)
       THEN /\ log' = Append(log, Call(models[i + 2]))
            /\ pc' = "calling"
            /\ lastResp' = NoResp
            /\ outcome' = outcome
       ELSE /\ outcome' = Thrown(handleGeminiError(lastResp.error))
            /\ pc' = "done"
            /\ UNCHANGED <<log, lastResp>>

chatWithGemini ==
    /\ pc \in {"idle", "done"}
    /\ fallbackEnter("chat", chatModels)
chatSettle ==
    /\ pc = "calling"
    /\ op = "chat"
    /\ \E resp \in TextResponses \cup Failures :
           fallbackSettle("chat", chatModels, emptyResponseError, resp)
chatResume ==
    /\ pc = "delaying"
    /\ op = "chat"
    /\ fallbackResume("chat", chatModels)

analyzeImage ==
    /\ pc \in {"idle", "done"}
    /\ fallbackEnter("analyzeImage", analyzeModels)
analyzeSettle ==
    /\ pc = "calling"
    /\ op = "analyzeImage"
    /\ \E resp \in TextResponses \cup Failures :
           fallbackSettle("analyzeImage", analyzeModels, emptyAnalysisError, resp)
analyzeResume ==
    /\ pc = "delaying"
    /\ op = "analyzeImage"
    /\ fallbackResume("analyzeImage", analyzeModels)

\* ---------------------------------------------------------------- editImage
\* Variant: retries without looking at the attempt count.
editMustRetry_always(error, n) == isRateLimit(error)

\* Variant: || in place of &&.
editMustRetry_or(error, n) == isRateLimit(error) \/ n < maxAttempts

\* Variant: the attempt budget is off by one.
editMustRetry_never(error, n) == isRateLimit(error) /\ n < maxAttempts - 1

\* if (isRateLimit && attempts < maxAttempts) { await delay(2000); continue; }
editMustRetry(error, n) == isRateLimit(error) /\ n < maxAttempts

\* The catch block: attempts++, then retry after 2000 ms or raise.
editCatch(error) ==
    /\ attempts' = attempts + 1
    /\ IF editMustRetry(error, attempts + 1)
       THEN /\ log' = Append(log, Delay(2000))
            /\ pc' = "delaying"
            /\ outcome' = outcome
       ELSE /\ outcome' = Thrown(handleGeminiError(error))
            /\ pc' = "done"
            /\ log' = log

\* Variant: the attempt counter lives on between invocations.
editImage_keepAttempts ==
    /\ pc \in {"idle", "done"}
    /\ op' = "editImage"
    /\ i' = 0
    /\ retries' = defaultRetries
    /\ lastResp' = NoResp
    /\ hist' = <<>>
    /\ apiKey' = apiKey
    /\ IF ~getGeminiModelThrows
       THEN /\ log' = <<Call(imageModel)>>
            /\ pc' = "calling"
            /\ outcome' = NoOutcome
            /\ attempts' = attempts
       ELSE /\ pc' = "done"
            /\ log' = <<>>
            /\ attempts' = 1
            /\ outcome' = Thrown(handleGeminiError(missingKeyError))

editImage ==
    /\ pc \in {"idle", "done"}
    /\ op' = "editImage"
    /\ i' = 0
    /\ retries' = defaultRetries
    /\ lastResp' = NoResp
    /\ hist' = <<>>
    /\ apiKey' = apiKey
    /\ IF ~getGeminiModelThrows
       THEN /\ log' = <<Call(imageModel)>>
            /\ pc' = "calling"
            /\ outcome' = NoOutcome
            /\ attempts' = 0
       ELSE /\ pc' = "done"
            /\ log' = <<>>
            /\ attempts' = 1
            /\ outcome' = Thrown(handleGeminiError(missingKeyError))

\* The awaited generateContent settles with resp.
editSettled(resp) ==
    /\ lastResp' = resp
    /\ hist' = Append(hist, Digest(op, resp))
    /\ UNCHANGED <<apiKey, op, i, retries>>
    /\ IF resp.type = "content" /\ resp.ncand > 0
       THEN LET r == extractParts(resp.parts, "", <<>>)
            IN  /\ outcome' = Returned(r.text, r.image)
                /\ pc' = "done"
                /\ UNCHANGED <<log, attempts>>
       ELSE editCatch(IF resp.type = "content" THEN noCandidatesError ELSE resp.error)

editSettle ==
    /\ pc = "calling"
    /\ op = "editImage"
    /\ \E resp \in ContentResponses \cup Failures : editSettled(resp)

\* continue: the while condition is tested again; past it the function ends
\* without a return statement.
editResume ==
    /\ pc = "delaying"
    /\ op = "editImage"
    /\ UNCHANGED <<apiKey, op, i, attempts, retries, hist>>
    /\ IF attempts < maxAttempts
       THEN /\ log' = Append(log, Call(imageModel))
            /\ pc' = "calling"
            /\ lastResp' = NoResp
            /\ outcome' = outcome
       ELSE /\ outcome' = ReturnedUndefined
            /\ pc' = "done"
            /\ UNCHANGED <<log, lastResp>>

\* ------------------------------------------------------------ generateImage
\* Variant: >= in place of >.
genMustRetry_geq(error, r) == genIsRateLimit(error) /\ r >= 0

\* if (isRateLimit && retries > 0)
genMustRetry(error, r) == genIsRateLimit(error) /\ r > 0

\* Variant: the schedule starts at 0 ms.
delayTime_from5(r) == (5 - r) * 2000

\* const delayTime = (6 - retries) * 2000;
delayTime(r) == (6 - r) * 2000

generateImage ==
    /\ pc \in {"idle", "done"}
    /\ op' = "generateImage"
    /\ i' = 0
    /\ attempts' = 0
    /\ retries' = defaultRetries
    /\ lastResp' = NoResp
    /\ hist' = <<>>
    /\ apiKey' = apiKey
    /\ IF ~getGeminiModelThrows
       THEN /\ log' = <<Call(imageModel)>>
            /\ pc' = "calling"
            /\ outcome' = NoOutcome
       ELSE /\ pc' = "done"
            /\ log' = <<>>
            /\ outcome' = Thrown(handleGeminiError(missingKeyError))

\* generateImageWithRetry's call settles: its catch retries after delayTime or
\* rethrows into generateImage's catch; a response goes to the extraction.
generateSettled(resp) ==
    /\ lastResp' = resp
    /\ hist' = Append(hist, Digest(op, resp))
    /\ UNCHANGED <<apiKey, op, i, attempts, retries>>
    /\ IF resp.type = "failure"
       THEN IF genMustRetry(resp.error, retries)
            THEN /\ log' = Append(log, Delay(delayTime(retries)))
                 /\ pc' = "delaying"
                 /\ outcome' = outcome
            ELSE /\ outcome' = Thrown(handleGeminiError(resp.error))
                 /\ pc' = "done"
                 /\ log' = log
       ELSE /\ pc' = "done"
            /\ log' = log
            /\ IF resp.ncand = 0
               THEN outcome' = Thrown(handleGeminiError(noCandidatesError))
               ELSE LET r == extractParts(resp.parts, "", <<>>)
                    IN  outcome' = Returned(r.text, r.image)

generateSettle ==
    /\ pc = "calling"
    /\ op = "generateImage"
    /\ \E resp \in ContentResponses \cup Failures : generateSettled(resp)

\* return generateImageWithRetry(ai, modelName, prompt, retries - 1)
generateResume ==
    /\ pc = "delaying"
    /\ op = "generateImage"
    /\ retries' = retries - 1
    /\ log' = Append(log, Call(imageModel))
    /\ pc' = "calling"
    /\ lastResp' = NoResp
    /\ UNCHANGED <<apiKey, op, i, attempts, hist, outcome>>

\* The operations called directly, with no ChatInterface around them.
Next ==
    \/ chatWithGemini /\ UNCHANGED <<uiVars, twinVars>>
    \/ chatSettle /\ UNCHANGED <<uiVars, twinVars>>
    \/ chatResume /\ UNCHANGED <<uiVars, twinVars>>
    \/ analyzeImage /\ UNCHANGED <<uiVars, twinVars>>
    \/ analyzeSettle /\ UNCHANGED <<uiVars, twinVars>>
    \/ analyzeResume /\ UNCHANGED <<uiVars, twinVars>>
    \/ editImage /\ UNCHANGED <<uiVars, twinVars>>
    \/ editSettle /\ UNCHANGED <<uiVars, twinVars>>
    \/ editResume /\ UNCHANGED <<uiVars, twinVars>>
    \/ generateImage /\ UNCHANGED <<uiVars, twinVars>>
    \/ generateSettle /\ UNCHANGED <<uiVars, twinVars>>
    \/ generateResume /\ UNCHANGED <<uiVars, twinVars>>

Spec == Init /\ [][Next]_vars

\* ------------------------------------------------ ChatInterface: handlers
\* What the backend is taken to answer while the ChatInterface is driving
\* the operations: a rate-limit failure, another failure, an empty text, a
\* text, no candidate, and candidates with and without an image or a text.
UIFailures ==
    {Resp("failure", e, <<>>, 0, <<>>) : e \in {RawError(<<"quota">>, 429), RawError(<<"oops">>, 0)}}
UITextResponses == {Resp("text", NoError, t, 0, <<>>) : t \in {<<>>, <<"a">>}}
UIPartLists == {<<>>, <<Part("img1", <<>>)>>, <<Part("", <<"a">>)>>}
UIContentResponses ==
    {Resp("content", NoError, <<>>, 0, <<>>)} \cup
    {Resp("content", NoError, <<>>, 1, p) : p \in UIPartLists}

\* reader.onloadend of handleImageUpload: the file's base64 and its type.
handleImageUpload ==
    /\ \E type \in FileTypes :
        /\ <<selectedImage, imageMimeType>> # <<uploadedImage, type>>
        /\ selectedImage' = uploadedImage
        /\ imageMimeType' = type
    /\ UNCHANGED <<messages, input, isLoading, isEditingMode, clock, sub, inFlight>>
    /\ UNCHANGED orchVars
    /\ UNCHANGED twinVars

\* The X on the image preview, rendered while an image is selected.
removeImage ==
    /\ selectedImage # ""
    /\ selectedImage' = ""
    /\ UNCHANGED <<messages, input, isLoading, imageMimeType, isEditingMode, clock, sub,
                   inFlight>>
    /\ UNCHANGED orchVars
    /\ UNCHANGED twinVars

\* The Edit Mode / Analysis Mode button, rendered while an image is selected.
toggleEditingMode ==
    /\ selectedImage # ""
    /\ isEditingMode' = ~isEditingMode
    /\ UNCHANGED <<messages, input, isLoading, selectedImage, imageMimeType, clock, sub,
                   inFlight>>
    /\ UNCHANGED orchVars
    /\ UNCHANGED twinVars

\* onChange of the textarea.
setInput ==
    /\ \E value \in Inputs :
        /\ value # input
        /\ input' = value
    /\ UNCHANGED <<messages, isLoading, selectedImage, imageMimeType, isEditingMode, clock,
                   sub, inFlight>>
    /\ UNCHANGED orchVars
    /\ UNCHANGED twinVars

\* Variant: the guard of handleSubmit does not look at isLoading.
handleSubmitReturns_noLoading == trim(input) = <<>> /\ selectedImage = ""
\* if ((!input.trim() && !selectedImage) || isLoading) return;
handleSubmitReturns == (trim(input) = <<>> /\ selectedImage = "") \/ isLoading

\* Variant: the editing mode is looked at before the image.
submittedFor_modeFirst(image, text, editing) ==
    IF editing
    THEN Sub("editImage", image,
             IF text # <<>> THEN text ELSE <<"Enhance this image">>, "image/png", TRUE)
    ELSE IF image # ""
    THEN Sub("analyzeImage", image, text, "image/png", FALSE)
    ELSE Sub("chat", "", text, "", editing)

\* Variant: the type of the uploaded file is passed as the third argument.
submittedFor_forwardsType(image, text, editing) ==
    IF image # ""
    THEN IF editing
         THEN Sub("editImage", image,
                  IF text # <<>> THEN text ELSE <<"Enhance this image">>, imageMimeType, TRUE)
         ELSE Sub("analyzeImage", image, text, imageMimeType, FALSE)
    ELSE Sub("chat", "", text, "", editing)

\* The operation handleSubmit awaits, with the arguments it passes, for the
\* image, the text and the mode of the render it was created in.
submittedFor(image, text, editing) ==
    IF image # ""
    THEN IF editing
         THEN Sub("editImage", image,
                  IF text # <<>> THEN text ELSE <<"Enhance this image">>, "image/png", TRUE)
         ELSE Sub("analyzeImage", image, text, "image/png", FALSE)
    ELSE Sub("chat", "", text, "", editing)
submitted == submittedFor(selectedImage, input, isEditingMode)

\* A submit of the form or Enter in the textarea, up to the first await:
\* the user turn, the cleared input, the loading flag and the entry into the
\* operation.  An operation entered while another one is outstanding runs
\* beside it and is only counted.
handleSubmit ==
    IF handleSubmitReturns
    THEN UNCHANGED vars
    ELSE \E now \in {clock + ms : ms \in SinceLastReading} :
            /\ Len(messages) < 1 + 2 * MaxSubmits
            /\ clock' = now
            /\ messages' = Append(messages,
                    Message(now, "user", input,
                            IF selectedImage # "" THEN DataUrl(imageMimeType, selectedImage)
                            ELSE NoImage,
                            FALSE, ""))
            /\ input' = <<>>
            /\ isLoading' = TRUE
            /\ sub' = submitted
            /\ inFlight' = inFlight + 1
            /\ UNCHANGED <<selectedImage, imageMimeType, isEditingMode, script, prev>>
            /\ IF pc = "idle"
               THEN IF submitted.op = "editImage" THEN editImage
                    ELSE IF submitted.op = "analyzeImage" THEN analyzeImage
                    ELSE chatWithGemini
               ELSE UNCHANGED orchVars

\* The backend call of the awaited operation settles, or its delay elapses.
uiChatSettle ==
    /\ pc = "calling"
    /\ op = "chat"
    /\ \E resp \in UITextResponses \cup UIFailures :
           fallbackSettle("chat", chatModels, emptyResponseError, resp)
    /\ UNCHANGED <<uiVars, twinVars>>
uiAnalyzeSettle ==
    /\ pc = "calling"
    /\ op = "analyzeImage"
    /\ \E resp \in UITextResponses \cup UIFailures :
           fallbackSettle("analyzeImage", analyzeModels, emptyAnalysisError, resp)
    /\ UNCHANGED <<uiVars, twinVars>>
uiEditSettle ==
    /\ pc = "calling"
    /\ op = "editImage"
    /\ \E resp \in UIContentResponses \cup UIFailures : editSettled(resp)
    /\ UNCHANGED <<uiVars, twinVars>>
uiResume ==
    /\ pc = "delaying"
    /\ chatResume \/ analyzeResume \/ editResume
    /\ UNCHANGED <<uiVars, twinVars>>

\* The assistant turn of the try block and what follows it.
assistantMessage(now, responseText, editedImage) ==
    Message(now + 1, "assistant", responseText,
            IF editedImage # "" THEN DataUrl("image/png", editedImage) ELSE NoImage,
            FALSE, "")
\* Variant: the catch block does not look at what was thrown.
errorTurn_generic(now, error) ==
    Message(now, "assistant",
            <<"I encountered an unexpected error processing your request.">>,
            NoImage, TRUE, "UNKNOWN_ERROR")

\* The turn of the catch block.
errorTurn(now, error) ==
    Message(now, "assistant",
            IF error.gemini THEN error.message
            ELSE <<"I encountered an unexpected error processing your request.">>,
            NoImage, TRUE,
            IF error.gemini THEN (IF error.code # "" THEN error.code ELSE "GEMINI_ERROR")
            ELSE "UNKNOWN_ERROR")
\* What reading result.textResponse of undefined throws.
typeError == RawError(<<"Cannot read properties of undefined">>, 0)

\* The try block ran to its end: the operation returned, and its result
\* could be read.  The image the edit gave back, if any.
succeeded == outcome.kind = "return" \/ (outcome.kind = "undefined" /\ sub.op # "editImage")
editedImage == IF sub.op = "editImage" THEN outcome.image ELSE ""
responseText ==
    IF sub.op # "editImage" THEN outcome.text
    ELSE IF outcome.text # <<>> THEN outcome.text
    ELSE <<"I've processed your image edit request.">>
caught == IF outcome.kind = "throw" THEN outcome.error ELSE typeError

\* Variant: the turn of the catch block is appended after a success too.
handleSubmitTurns_both(now) ==
    IF succeeded
    THEN <<assistantMessage(now, responseText, editedImage), errorTurn(now, typeError)>>
    ELSE <<errorTurn(now, caught)>>
\* Variant: a raised error is swallowed without a turn.
handleSubmitTurns_silent(now) ==
    IF succeeded
    THEN <<assistantMessage(now, responseText, editedImage)>>
    ELSE <<>>
\* The turns the continuation of handleSubmit appends once its operation
\* has ended: the assistant turn of the try block, or the turn of the catch.
handleSubmitTurns(now) ==
    IF succeeded
    THEN <<assistantMessage(now, responseText, editedImage)>>
    ELSE <<errorTurn(now, caught)>>

\* Variant: the mode of the latest render decides whether the image is kept.
imageAfterSubmit_currentMode ==
    IF ~succeeded THEN DataUrl(imageMimeType, selectedImage)
    ELSE IF editedImage # "" THEN DataUrl("image/png", editedImage)
    ELSE IF ~isEditingMode THEN DataUrl(imageMimeType, "")
    ELSE DataUrl(imageMimeType, selectedImage)
\* Variant: the image is cleared after the catch block as well.
imageAfterSubmit_afterCatch ==
    IF succeeded /\ editedImage # "" THEN DataUrl("image/png", editedImage)
    ELSE IF ~sub.isEditingMode THEN DataUrl(imageMimeType, "")
    ELSE DataUrl(imageMimeType, selectedImage)
\* The selected image and its type after the try block: the edited image
\* as a PNG; else none if the submit was made with editing mode off; else,
\* and after a failure, what is selected now.
imageAfterSubmit ==
    IF ~succeeded THEN DataUrl(imageMimeType, selectedImage)
    ELSE IF editedImage # "" THEN DataUrl("image/png", editedImage)
    ELSE IF ~sub.isEditingMode THEN DataUrl(imageMimeType, "")
    ELSE DataUrl(imageMimeType, selectedImage)

\* Variant: the loading flag is cleared at the end of the try block only.
loadingAfterSubmit_tryOnly == ~succeeded
\* finally { setIsLoading(false); }
loadingAfterSubmit == FALSE

\* Variant: the turn of the outcome takes the place of the last turn.
handleSubmitDone_replace ==
    /\ pc = "done"
    /\ inFlight > 0
    /\ \E now \in {clock + ms : ms \in Elapsed} :
        /\ clock' = now
        /\ messages' = SubSeq(messages, 1, Len(messages) - 1) \o handleSubmitTurns(now)
    /\ selectedImage' = imageAfterSubmit.data
    /\ imageMimeType' = imageAfterSubmit.mime
    /\ isLoading' = loadingAfterSubmit
    /\ inFlight' = inFlight - 1
    /\ sub' = NoSub
    /\ UNCHANGED <<input, isEditingMode>>
    \* the invocation and what was observed of it are over
    /\ pc' = "idle"
    /\ op' = "none"
    /\ i' = 0
    /\ attempts' = 0
    /\ retries' = defaultRetries
    /\ lastResp' = NoResp
    /\ log' = <<>>
    /\ hist' = <<>>
    /\ outcome' = NoOutcome
    /\ UNCHANGED <<apiKey, script, prev>>

\* The rest of handleSubmit, run when the awaited operation has ended.
handleSubmitDone ==
    /\ pc = "done"
    /\ inFlight > 0
    /\ \E now \in {clock + ms : ms \in Elapsed} :
        /\ clock' = now
        /\ messages' = messages \o handleSubmitTurns(now)
    /\ selectedImage' = imageAfterSubmit.data
    /\ imageMimeType' = imageAfterSubmit.mime
    /\ isLoading' = loadingAfterSubmit
    /\ inFlight' = inFlight - 1
    /\ sub' = NoSub
    /\ UNCHANGED <<input, isEditingMode>>
    \* the invocation and what was observed of it are over
    /\ pc' = "idle"
    /\ op' = "none"
    /\ i' = 0
    /\ attempts' = 0
    /\ retries' = defaultRetries
    /\ lastResp' = NoResp
    /\ log' = <<>>
    /\ hist' = <<>>
    /\ outcome' = NoOutcome
    /\ UNCHANGED <<apiKey, script, prev>>

UINext ==
    \/ handleImageUpload
    \/ removeImage
    \/ toggleEditingMode
    \/ setInput
    \/ handleSubmit
    \/ uiChatSettle
    \/ uiAnalyzeSettle
    \/ uiEditSettle
    \/ uiResume
    \/ handleSubmitDone

UISpec == Init /\ [][UINext]_vars

\* ------------------------------------------- invocations side by side
\* The operations called one invocation after another, against a backend
\* that answers from a script; an invocation that has ended may be
\* remembered, to be compared with a later one of the same operation.
remember ==
    /\ script' = <<>>
    /\ IF pc = "done"
       THEN prev' \in {prev, Remembered(op, script, log, outcome)}
       ELSE prev' = prev
    /\ UNCHANGED uiVars
answered ==
    /\ script' = Append(script, lastResp')
    /\ prev' = prev
    /\ UNCHANGED uiVars

twinChat == chatWithGemini /\ remember
twinAnalyze == analyzeImage /\ remember
twinEdit == editImage /\ remember
twinGenerate == generateImage /\ remember
twinChatSettle ==
    /\ pc = "calling"
    /\ op = "chat"
    /\ \E resp \in UITextResponses \cup UIFailures :
           fallbackSettle("chat", chatModels, emptyResponseError, resp)
    /\ answered
twinAnalyzeSettle ==
    /\ pc = "calling"
    /\ op = "analyzeImage"
    /\ \E resp \in UITextResponses \cup UIFailures :
           fallbackSettle("analyzeImage", analyzeModels, emptyAnalysisError, resp)
    /\ answered
twinEditSettle ==
    /\ pc = "calling"
    /\ op = "editImage"
    /\ \E resp \in UIContentResponses \cup UIFailures : editSettled(resp)
    /\ answered
twinGenerateSettle ==
    /\ pc = "calling"
    /\ op = "generateImage"
    /\ \E resp \in UIContentResponses \cup UIFailures : generateSettled(resp)
    /\ answered
twinResume ==
    /\ pc = "delaying"
    /\ chatResume \/ analyzeResume \/ editResume \/ generateResume
    /\ UNCHANGED <<uiVars, twinVars>>

TwinNext ==
    \/ twinChat
    \/ twinAnalyze
    \/ twinEdit
    \/ twinGenerate
    \/ twinChatSettle
    \/ twinAnalyzeSettle
    \/ twinEditSettle
    \/ twinGenerateSettle
    \/ twinResume

TwinSpec == Init /\ [][TwinNext]_vars

\* ---------------------------------------------------------- observations
Calls == SelectSeq(log, LAMBDA e : e.ev = "call")
Delays == SelectSeq(log, LAMBDA e : e.ev = "delay")
CallModels == [k \in 1..Len(Calls) |-> Calls[k].model]
DelayMs == [k \in 1..Len(Delays) |-> Delays[k].ms]
\* The latest backend call has settled and the handler has acted on it.
Settled == hist # <<>> /\ Len(hist) = Len(Calls) /\ lastResp.type # "none"

TypeOK ==
    /\ apiKey \in BOOLEAN
    /\ op \in {"none", "chat", "analyzeImage", "editImage", "generateImage"}
    /\ pc \in {"idle", "calling", "delaying", "done"}
    /\ i \in 0..2
    /\ attempts \in 0..maxAttempts
    /\ retries \in 0..defaultRetries
    /\ outcome.kind \in {"none", "return", "throw", "undefined"}

Kind(error) == handleGeminiError(error).code
LastEvent == log[Len(log)]
\* The log of a fallback run over the first n candidates that has waited
\* after each of the first d of them: call 1, delay, call 2, delay, ...
FallbackLog(models, n, d, ms) ==
    [k \in 1..(n + d) |-> IF k % 2 = 1 THEN Call(models[(k + 1) \div 2]) ELSE Delay(ms)]

\* ------------------------------------------------------------------ C1
\* C1: chat fallback on rate limit.  For k in {1,2}: once the first k chat
\* candidates have each failed with a message containing "429", "quota" or
\* "Rate limit", the run so far is call 1, 1000 ms, ..., call k, 1000 ms; and
\* when candidate k+1 then answers with non-empty text, the invocation has
\* made exactly the k+1 calls to candidates 1..k+1 in order, exactly k delays
\* of 1000 ms, one between consecutive calls, and has returned that text.
C1_ChatFallbackOnRateLimit ==
    \A k \in {1, 2} :
        (op = "chat" /\ Len(hist) >= k /\ \A j \in 1..k : hist[j] = "rateLimitMsg")
        => /\ Len(log) >= 2 * k
           /\ SubSeq(log, 1, 2 * k) = FallbackLog(chatModels, k, k, 1000)
           /\ (Len(hist) >= k + 1 /\ hist[k + 1] = "ok")
              => /\ pc = "done"
                 /\ log = FallbackLog(chatModels, k + 1, k, 1000)
                 /\ lastResp.text # <<>>
                 /\ outcome = Returned(lastResp.text, "")

C1_Witness ==
    /\ op = "chat"
    /\ hist = <<"rateLimitMsg", "rateLimitMsg", "ok">>
    /\ Len(Calls) = 3
    /\ DelayMs = <<1000, 1000>>
    /\ outcome.kind = "return"

\* ------------------------------------------------------------------ C2
\* C2: a chat or analyzeImage response without text makes the operation fail
\* with a GeminiError whose code, as the caller sees it, is EMPTY_RESPONSE.
C2_EmptyResponseKind ==
    (op \in {"chat", "analyzeImage"} /\ lastResp.type = "text" /\ lastResp.text = <<>>)
    => /\ outcome.kind = "throw"
       /\ outcome.error.gemini
       /\ outcome.error.code = "EMPTY_RESPONSE"

\* ------------------------------------------------------------------ C3
\* C3: an editImage response with zero result candidates makes editImage fail
\* with a GeminiError whose code is NO_CANDIDATES.
C3_NoCandidatesKind ==
    (op = "editImage" /\ lastResp.type = "content" /\ lastResp.ncand = 0)
    => /\ outcome.kind = "throw"
       /\ outcome.error.gemini
       /\ outcome.error.code = "NO_CANDIDATES"

\* ------------------------------------------------------------------ C4
\* C4: RATE_LIMIT is the only kind recovered locally.  In all four
\* operations a failure that is followed by a delay (and then a further
\* call) is one handleGeminiError classifies RATE_LIMIT; a failure it
\* classifies AUTH_ERROR, SAFETY_ERROR, NETWORK_ERROR or UNKNOWN_ERROR is
\* raised at once, with no delay and no further call.
C4_OnlyRateLimitRecovered ==
    /\ pc = "delaying" => Kind(lastResp.error) = "RATE_LIMIT"
    /\ (lastResp.type = "failure" /\ Kind(lastResp.error) # "RATE_LIMIT")
       => /\ pc = "done"
          /\ outcome.kind = "throw"
          /\ LastEvent.ev = "call"

\* ------------------------------------------------------------------ C5
\* C5: in chat and analyzeImage, when a candidate that is not the last one
\* fails with a failure handleGeminiError classifies RATE_LIMIT (status 429
\* or a message mentioning quota), the operation waits the 1000 ms
\* inter-model delay (and then calls the next candidate) instead of failing.
C5_RateLimitClassifiedFallsBack ==
    \A o \in {"chat", "analyzeImage"} :
        LET models == IF o = "chat" THEN chatModels ELSE analyzeModels
        IN  (/\ op = o
             /\ lastResp.type = "failure"
             /\ Kind(lastResp.error) = "RATE_LIMIT"
             /\ Len(Calls) < Len(models))
            => /\ pc = "delaying"
               /\ outcome.kind = "none"
               /\ LastEvent = Delay(1000)

\* ------------------------------------------------------------------ C6
\* C6 (as claimed): generateImage issues at most five backend calls in one
\* invocation, all to the same single model.
C6_AtMostFiveCalls ==
    op = "generateImage"
    => /\ Len(Calls) <= 5
       /\ \A k \in 1..Len(Calls) : CallModels[k] = imageModel

\* C6 (amended): generateImage issues at most six backend calls in one
\* invocation, the first call and up to five retries, all to the same single
\* model, however many consecutive rate-limit failures the backend returns.
C6_AtMostSixCalls ==
    op = "generateImage"
    => /\ Len(Calls) <= defaultRetries + 1
       /\ \A k \in 1..Len(Calls) : CallModels[k] = imageModel

C6_Witness ==
    /\ op = "generateImage"
    /\ pc = "done"
    /\ Len(Calls) = 6
    /\ \A j \in 1..6 : hist[j] = "rateLimit"
    /\ outcome.kind = "throw"

\* ------------------------------------------------------------------ C7
\* C7: generateImage backoff schedule.  For n within the retry budget: once
\* the first n calls have each failed with a rate-limit failure, the run so
\* far is call, delay 2000, call, delay 4000, ..., the i-th delay being
\* i * 2000 ms; and when call n+1 then returns a response with candidates,
\* exactly n delays and n+1 calls were made and the result is the one
\* extracted from that response.
C7_GenerateBackoffSchedule ==
    \A n \in 1..defaultRetries :
        (/\ op = "generateImage"
         /\ Len(hist) >= n
         /\ \A j \in 1..n : hist[j] = "rateLimit")
        => /\ Len(log) >= 2 * n
           /\ \A k \in 1..n : log[2 * k - 1] = Call(imageModel) /\ log[2 * k] = Delay(k * 2000)
           /\ (Len(hist) >= n + 1 /\ hist[n + 1] = "ok")
              => /\ pc = "done"
                 /\ Len(log) = 2 * n + 1
                 /\ DelayMs = [k \in 1..n |-> k * 2000]
                 /\ LET r == extractParts(lastResp.parts, "", <<>>)
                    IN  outcome = Returned(r.text, r.image)

C7_Witness ==
    /\ op = "generateImage"
    /\ Len(hist) = 5
    /\ hist[5] = "ok"
    /\ DelayMs = <<2000, 4000, 6000, 8000>>
    /\ outcome.kind = "return"
    /\ outcome.image = "img2"

\* ------------------------------------------------------------------ C8
\* C8: editImage retry.  When the first editImage call fails with a message
\* containing "429", "quota" or "Rate limit", one delay of 2000 ms follows
\* it; when the second call then returns a response with candidates, the
\* invocation has made exactly two calls to the same model with exactly that
\* one delay between them, and returns the text and image extracted from the
\* second response alone.
C8_EditRetryOnce ==
    (op = "editImage" /\ Len(hist) >= 1 /\ hist[1] = "rateLimitMsg")
    => /\ Len(log) >= 2
       /\ log[1] = Call(imageModel)
       /\ log[2] = Delay(2000)
       /\ (Len(hist) >= 2 /\ hist[2] = "ok")
          => /\ pc = "done"
             /\ log = <<Call(imageModel), Delay(2000), Call(imageModel)>>
             /\ LET r == extractParts(lastResp.parts, "", <<>>)
                IN  outcome = Returned(r.text, r.image)

C8_Witness ==
    /\ op = "editImage"
    /\ hist = <<"rateLimitMsg", "ok">>
    /\ DelayMs = <<2000>>
    /\ outcome.kind = "return"
    /\ outcome.image = "img1"
    /\ outcome.text = <<"b">>

\* ------------------------------------------------------------------ C9
\* C9: editImage never issues more than two backend calls per invocation: a
\* rate-limit failure on the second attempt, or a failure without rate-limit
\* marker on either attempt, is classified and raised with no further call
\* and no further delay.
C9_EditAtMostTwoCalls ==
    op = "editImage"
    => /\ Len(Calls) <= 2
       /\ Len(Delays) <= 1
       /\ (/\ lastResp.type = "failure"
           /\ (Len(hist) = 2 \/ ~HasRateMarker(lastResp.error.message)))
          => /\ pc = "done"
             /\ outcome = Thrown(handleGeminiError(lastResp.error))
             /\ LastEvent.ev = "call"
             /\ Len(Calls) = Len(hist)

C9_Witness ==
    /\ op = "editImage"
    /\ hist = <<"rateLimitMsg", "rateLimitMsg">>
    /\ pc = "done"
    /\ Len(Calls) = 2
    /\ outcome.kind = "throw"

\* ----------------------------------------------------------------- C10
\* C10: a zero-candidate response is never retried: when an editImage or
\* generateImage call returns a response with no result candidates, the
\* operation fails after that call, with no delay and no further call.
C10_NoCandidatesNotRetried ==
    (/\ op \in {"editImage", "generateImage"}
     /\ lastResp.type = "content"
     /\ lastResp.ncand = 0)
    => /\ pc = "done"
       /\ outcome.kind = "throw"
       /\ LastEvent.ev = "call"
       /\ Len(Calls) = Len(hist)

C10_Witness ==
    /\ op \in {"editImage", "generateImage"}
    /\ hist = <<"noCandidates">>
    /\ lastResp.ncand = 0
    /\ pc = "done"
    /\ Len(log) = 1

\* ----------------------------------------------------------------- C11
ModelsOf(o) == IF o = "chat" THEN chatModels ELSE analyzeModels

\* C11: in chat and analyzeImage a failure whose message contains none of
\* "429", "quota", "Rate limit" ends the operation at once, whichever
\* candidate raised it: it is classified and raised, no later candidate is
\* called and no delay is performed; and a failure of any kind on the last
\* candidate is raised without a trailing delay.
C11_NonRateLimitEndsAtOnce ==
    (/\ op \in {"chat", "analyzeImage"}
     /\ lastResp.type = "failure"
     /\ (~HasRateMarker(lastResp.error.message) \/ Len(Calls) = Len(ModelsOf(op))))
    => /\ pc = "done"
       /\ outcome = Thrown(handleGeminiError(lastResp.error))
       /\ LastEvent.ev = "call"
       /\ Len(Calls) = Len(hist)
       /\ Len(Delays) = Len(Calls) - 1

C11_Witness ==
    /\ op = "chat"
    /\ hist = <<"rateLimitMsg", "failure">>
    /\ pc = "done"
    /\ Len(Calls) = 2
    /\ Len(Delays) = 1
    /\ outcome.kind = "throw"

\* ----------------------------------------------------------------- C12
\* C12: an empty (text-less) response from a chat or analyzeImage candidate
\* is not retried: even when later candidates remain, the operation fails
\* after that call with no further backend call and no delay.
C12_EmptyNotRetried ==
    (/\ op \in {"chat", "analyzeImage"}
     /\ lastResp.type = "text"
     /\ lastResp.text = <<>>)
    => /\ pc = "done"
       /\ outcome.kind = "throw"
       /\ LastEvent.ev = "call"
       /\ Len(Calls) = Len(hist)
       /\ Len(Delays) = Len(Calls) - 1

C12_Witness ==
    /\ op = "analyzeImage"
    /\ hist = <<"empty">>
    /\ Len(Calls) = 1
    /\ Len(Calls) < Len(analyzeModels)
    /\ pc = "done"
    /\ outcome.kind = "throw"

\* ----------------------------------------------------------------- C13
\* The decision list of the classification, written as data: the kinds in
\* order, each with the test that selects it.
KindOrder == <<"AUTH_ERROR", "SAFETY_ERROR", "RATE_LIMIT", "NETWORK_ERROR", "UNKNOWN_ERROR">>
Mentions(message, markers) == \E k \in DOMAIN message : message[k] \in markers
RuleMatches(kind, message, status) ==
    CASE kind = "AUTH_ERROR" -> Mentions(message, {"API_KEY_INVALID", "API key not valid"})
      [] kind = "SAFETY_ERROR" -> Mentions(message, {"SAFETY", "blocked"})
      [] kind = "RATE_LIMIT" -> status = 429 \/ Mentions(message, {"quota"})
      [] kind = "NETWORK_ERROR" -> Mentions(message, {"network", "fetch"})
      [] kind = "UNKNOWN_ERROR" -> TRUE
FirstMatch(message, status) ==
    KindOrder[CHOOSE n \in DOMAIN KindOrder :
                 /\ RuleMatches(KindOrder[n], message, status)
                 /\ \A m \in 1..(n - 1) : ~RuleMatches(KindOrder[m], message, status)]

\* C13: error classification is the ordered decision list AUTH_ERROR >
\* SAFETY_ERROR > RATE_LIMIT > NETWORK_ERROR > UNKNOWN_ERROR: whenever an
\* operation raises a backend failure, the GeminiError the caller gets has the
\* kind of the first rule the failure's message markers and status match
\* ("quota" together with "SAFETY" gives SAFETY_ERROR, status 429 without
\* marker gives RATE_LIMIT), and UNKNOWN_ERROR carries the failure's own
\* message (the stock text when the failure has none).
C13_ClassificationOrder ==
    (pc = "done" /\ lastResp.type = "failure")
    => /\ outcome.kind = "throw"
       /\ outcome.error.gemini
       /\ outcome.error.code = FirstMatch(lastResp.error.message, lastResp.error.status)
       /\ outcome.error.code = "UNKNOWN_ERROR"
          => outcome.error.message =
                 (IF lastResp.error.message # <<>> THEN lastResp.error.message
                  ELSE <<"An unexpected error occurred">>)

C13_Witness ==
    /\ pc = "done"
    /\ lastResp.type = "failure"
    /\ lastResp.error.message = <<"quota", "SAFETY">>
    /\ lastResp.error.status = 429
    /\ outcome.error.code = "SAFETY_ERROR"

\* ----------------------------------------------------------------- C14
\* C14: when chat or analyzeImage exhausts its candidate list, or editImage
\* its attempts, the error surfaced is the classification of the failure of
\* the last call alone, whatever the earlier attempts failed with.
C14_LastFailureSurfaced ==
    (/\ lastResp.type = "failure"
     /\ \/ op \in {"chat", "analyzeImage"} /\ Len(hist) = Len(ModelsOf(op))
        \/ op = "editImage" /\ Len(hist) = maxAttempts)
    => /\ pc = "done"
       /\ outcome = Thrown(handleGeminiError(lastResp.error))
       /\ outcome.error.code = FirstMatch(lastResp.error.message, lastResp.error.status)

C14_Witness ==
    /\ op = "chat"
    /\ hist = <<"rateLimitMsg", "rateLimitMsg", "failure">>
    /\ lastResp.error.message = <<"SAFETY">>
    /\ outcome.kind = "throw"
    /\ outcome.error.code = "SAFETY_ERROR"

\* ----------------------------------------------------------------- C15
\* C15: with the credential absent, each of chat, analyzeImage, editImage
\* and generateImage fails without issuing any backend call and without
\* performing any delay.
C15_NoKeyNoCall ==
    ~apiKey
    => /\ log = <<>>
       /\ hist = <<>>
       /\ pc \in {"idle", "done"}
       /\ op # "none" => (pc = "done" /\ outcome.kind = "throw")

C15_Witness ==
    /\ ~apiKey
    /\ op = "editImage"
    /\ pc = "done"
    /\ outcome.kind = "throw"
    /\ log = <<>>

\* ----------------------------------------------------------------- C16
Taxonomy == {"AUTH_ERROR", "SAFETY_ERROR", "RATE_LIMIT", "NETWORK_ERROR",
             "EMPTY_RESPONSE", "NO_CANDIDATES", "UNKNOWN_ERROR"}

\* C16: with the credential absent, the error the caller receives from any
\* of the four operations is an initialization error distinct from the
\* runtime taxonomy: it is not a GeminiError carrying one of the seven kinds.
C16_NoKeyErrorOutsideTaxonomy ==
    (~apiKey /\ pc = "done")
    => /\ outcome.kind = "throw"
       /\ ~(outcome.error.gemini /\ outcome.error.code \in Taxonomy)

\* ----------------------------------------------------------------- C17
\* Every backend call eventually settles and every delay eventually elapses:
\* the invocation leaves the call or the delay it is waiting in.  (A settle
\* step is possible in every state with a call pending and a resume step in
\* every state with a delay pending, and these are the steps that change pc.)
Progress ==
    /\ pc \in {"calling", "delaying"}
    /\ pc' \in {"idle", "calling", "delaying", "done"} \ {pc}

FairSpec == Spec /\ WF_pc(Progress)

\* C17: every invocation of chat, analyzeImage, editImage or generateImage,
\* provided each backend call eventually completes, terminates after a
\* bounded number of calls in exactly one terminal outcome: it has returned
\* a result or raised an error, never completed with nothing (it neither
\* falls out of the editImage loop nor past the chat candidate loop).
C17_OneTerminalOutcome ==
    /\ [](pc = "done" => outcome.kind \in {"return", "throw"})
    /\ [](pc \in {"calling", "delaying"} => outcome.kind = "none")
    /\ [](Len(Calls) <= defaultRetries + 1)
    /\ (pc \in {"calling", "delaying"}) ~> (pc = "done")

C17_Witness ==
    /\ op = "editImage"
    /\ pc = "done"
    /\ hist = <<"rateLimitMsg", "failure">>
    /\ Len(Calls) = maxAttempts
    /\ outcome.kind = "throw"

\* ----------------------------------------------------------------- C18
\* C18: at most one operation, hence at most one backend call, is
\* outstanding at any time, and it is outstanding exactly while isLoading
\* is true; while isLoading is true no step dispatches an operation, the
\* only backend call issued is the next one of the running operation after
\* its delay, and the only turn appended is the one of its completion.  A
\* handleSubmit arriving then therefore issues no call and appends no turn.
C18_SubmitWhileLoadingIgnored ==
    /\ [](inFlight <= 1 /\ (isLoading <=> inFlight = 1) /\ (pc # "idle" => isLoading))
    /\ [][isLoading => /\ inFlight' <= inFlight
                       /\ (Len(Calls') > Len(Calls) => pc = "delaying")
                       /\ (messages' # messages => pc = "done" /\ ~isLoading')
                       /\ (handleSubmit => UNCHANGED vars)]_vars

\* A call is in flight and the form holds a text that a submit would take.
C18_Witness ==
    /\ isLoading
    /\ pc = "calling"
    /\ trim(input) # <<>>

\* ----------------------------------------------------------------- C19
\* C19: the turns after the greeting alternate user turn, assistant turn,
\* the last user turn being unanswered exactly while its operation is
\* outstanding; the step that ends an accepted submission appends exactly
\* one assistant turn, a normal one if the operation returned and one with
\* isError true if it raised.
C19_OneAssistantTurnPerSubmission ==
    /\ [](/\ \A k \in 2..Len(messages) :
               messages[k].role = IF k % 2 = 0 THEN "user" ELSE "assistant"
          /\ isLoading <=> Len(messages) % 2 = 0)
    /\ [][pc = "done" /\ isLoading /\ ~isLoading'
          => /\ Len(messages') = Len(messages) + 1
             /\ SubSeq(messages', 1, Len(messages)) = messages
             /\ messages'[Len(messages')].role = "assistant"
             /\ outcome.kind = "return" => ~messages'[Len(messages')].isError
             /\ outcome.kind = "throw" => messages'[Len(messages')].isError]_vars

\* An operation that raised has been answered by an error turn.
C19_Witness ==
    /\ ~isLoading
    /\ Len(messages) = 3
    /\ messages[2].role = "user"
    /\ messages[3].isError

\* ----------------------------------------------------------------- C20
\* C20: for chat and analyzeImage, in every execution the sequence of models
\* called is a prefix of the operation's fixed candidate list: each candidate
\* is called at most once, none is skipped, and the order never changes.
C20_CallsArePrefixOfCandidates ==
    op \in {"chat", "analyzeImage"}
    => /\ Len(Calls) <= Len(ModelsOf(op))
       /\ CallModels = SubSeq(ModelsOf(op), 1, Len(Calls))

C20_Witness ==
    /\ op = "chat"
    /\ CallModels = <<"gemini-3.1-pro-preview", "gemini-3-flash-preview", "gemini-flash-lite-latest">>
    /\ pc = "done"
\* ----------------------------------------------------------------- C21
\* C21: when the first candidate of chat or analyzeImage answers with a
\* non-empty text, the operation has ended, has returned exactly that text,
\* and has made exactly one backend call, to the first candidate, and no
\* delay.
C21_FirstCandidateSuccess ==
    (op \in {"chat", "analyzeImage"} /\ hist # <<>> /\ hist[1] = "ok")
    => /\ pc = "done"
       /\ hist = <<"ok">>
       /\ lastResp.type = "text"
       /\ lastResp.text # <<>>
       /\ outcome = Returned(lastResp.text, "")
       /\ log = <<Call(ModelsOf(op)[1])>>

C21_Witness ==
    /\ op = "analyzeImage"
    /\ hist = <<"ok">>
    /\ outcome = Returned(<<"b">>, "")
    /\ Len(Calls) = 1
    /\ Delays = <<>>

\* ----------------------------------------------------------------- C22
IsPrefix(a, b) == Len(a) <= Len(b) /\ SubSeq(b, 1, Len(a)) = a

\* C22: an invocation is compared with a remembered earlier invocation of
\* the same operation (same inputs, same key).  As long as the backend has
\* answered the later one as it answered the earlier one, the later one has
\* made the same calls and delays in the same order and has not ended
\* before the earlier one did; and when it has ended on a script that agrees
\* with the earlier one's, it has consumed exactly the same answers, made
\* the same calls and delays and given the same result or the same error.
C22_SameScriptSameRun ==
    (op # "none" /\ prev.op = op /\ (IsPrefix(script, prev.script) \/ IsPrefix(prev.script, script)))
    => IF pc = "done"
       THEN /\ script = prev.script
            /\ log = prev.log
            /\ outcome = prev.outcome
       ELSE /\ Len(script) < Len(prev.script)
            /\ IsPrefix(log, prev.log)

\* Two editImage invocations, each rate-limited once and then answered.
C22_Witness ==
    /\ prev.op = "editImage"
    /\ op = "editImage"
    /\ pc = "done"
    /\ Len(script) = 2
    /\ script = prev.script
    /\ outcome.kind = "return"

\* ----------------------------------------------------------------- C23
\* The texts of the textual parts, one after the other in part order.
RECURSIVE TextOfParts(_)
TextOfParts(parts) ==
    IF parts = <<>> THEN <<>> ELSE Head(parts).text \o TextOfParts(Tail(parts))
CarriesImage(parts) == \E k \in DOMAIN parts : parts[k].inlineData # ""

\* C23: when editImage or generateImage has returned, the returned text is
\* the concatenation, in part order, of the texts of the parts of the
\* response's first candidate, and an image is returned exactly when some
\* part carries an inline payload (it is then the payload of one of them).
C23_PartExtraction ==
    (op \in {"editImage", "generateImage"} /\ pc = "done" /\ outcome.kind = "return")
    => /\ lastResp.type = "content"
       /\ outcome.text = TextOfParts(lastResp.parts)
       /\ outcome.image # "" <=> CarriesImage(lastResp.parts)
       /\ outcome.image # ""
          => \E k \in DOMAIN lastResp.parts : lastResp.parts[k].inlineData = outcome.image

C23_Witness ==
    /\ op = "generateImage"
    /\ pc = "done"
    /\ lastResp.parts = <<Part("", <<"a">>), Part("", <<"b">>)>>
    /\ outcome = Returned(<<"a", "b">>, "")

\* ----------------------------------------------------------------- C24
\* C24: the message sequence is append-only.  Every step of the session
\* (submit, typing, upload, removal, mode toggle, backend answer, delay,
\* completion) leaves every turn already in the sequence at its position
\* with all its fields unchanged, and adds at most one turn, at the end.
C24_MessagesAppendOnly ==
    [][/\ IsPrefix(messages, messages')
       /\ Len(messages') <= Len(messages) + 1]_vars

\* A user turn with an image and its answer have been added to the greeting.
C24_Witness ==
    /\ Len(messages) = 3
    /\ messages[1] = greeting
    /\ messages[2].image # NoImage
    /\ messages[3].role = "assistant"

\* ----------------------------------------------------------------- C25
Operations == {"chat", "analyzeImage", "editImage", "generateImage"}

\* C25: for each of chat, analyzeImage, editImage and generateImage, the
\* user of an idle session can bring the form (keeping, removing or
\* attaching an image, typing a text, setting the editing mode) to a state
\* in which a submit is accepted and dispatches that operation.
C25_FourEntryPointsDispatched ==
    ~isLoading
    => \A o \in Operations :
           \E image \in {selectedImage, "", uploadedImage}, text \in Inputs, editing \in BOOLEAN :
               /\ trim(text) # <<>> \/ image # ""
               /\ submittedFor(image, text, editing).op = o

\* ----------------------------------------------------------------- C26
\* C26: an operation that fails raises a GeminiError, and the step that ends
\* its submission appends an assistant turn that has isError true, the
\* error's code as errorCode, the error's message as content and no image:
\* never a normal turn.
C26_ErrorTurnCarriesError ==
    /\ [](outcome.kind = "throw" => outcome.error.gemini /\ outcome.error.code \in Taxonomy)
    /\ [][(pc = "done" /\ isLoading /\ ~isLoading' /\ outcome.kind = "throw")
          => /\ Len(messages') = Len(messages) + 1
             /\ messages'[Len(messages')].role = "assistant"
             /\ messages'[Len(messages')].isError
             /\ messages'[Len(messages')].errorCode = outcome.error.code
             /\ messages'[Len(messages')].content = outcome.error.message
             /\ messages'[Len(messages')].image = NoImage]_vars

\* The three chat candidates were rate-limited and the turn says so.
C26_Witness ==
    /\ ~isLoading
    /\ Len(messages) = 3
    /\ messages[3].isError
    /\ messages[3].errorCode = "RATE_LIMIT"
    /\ messages[2].image = NoImage

\* ----------------------------------------------------------------- C27
\* The operation the state of the form calls for.
Intent ==
    IF selectedImage = "" THEN "chat"
    ELSE IF isEditingMode THEN "editImage" ELSE "analyzeImage"

\* C27: the step that accepts a submission dispatches exactly one operation,
\* the one the form calls for at that moment (editImage: image and editing
\* mode on; analyzeImage: image and editing mode off; chat: no image,
\* whatever the mode), with the image and the text of that moment (for an
\* edit without text, the text "Enhance this image"); while the operation
\* is outstanding, neither the operation nor what it was given changes,
\* whatever is typed, attached, removed or toggled meanwhile.
C27_IntentFromStateAtSubmit ==
    /\ [][(~isLoading /\ isLoading')
          => /\ op' = Intent
             /\ sub'.op = Intent
             /\ sub'.image = selectedImage
             /\ sub'.prompt = IF Intent = "editImage" /\ input = <<>>
                              THEN <<"Enhance this image">> ELSE input
             /\ inFlight' = 1
             /\ Len(Calls') <= 1]_vars
    /\ [][(isLoading /\ isLoading') => (sub' = sub /\ op' = op)]_vars
    /\ [](isLoading => op = sub.op)

\* A chat submitted with editing mode on and no image is outstanding while
\* an image has been attached and a new text typed.
C27_Witness ==
    /\ isLoading
    /\ pc = "calling"
    /\ op = "chat"
    /\ sub.isEditingMode
    /\ sub.image = ""
    /\ selectedImage = uploadedImage
    /\ input # <<>>
    /\ input # sub.prompt

\* ----------------------------------------------------------------- C28
RECURSIVE Sum(_)
Sum(numbers) == IF numbers = <<>> THEN 0 ELSE Head(numbers) + Sum(Tail(numbers))
MaxTotalDelay(o) ==
    CASE o = "chat" -> 2000
      [] o = "analyzeImage" -> 1000
      [] o = "editImage" -> 2000
      [] o = "generateImage" -> 30000

\* C28: an operation that has ended after n >= 1 backend calls has made
\* exactly n - 1 delays, none of them after its last call, and the delays
\* of the invocation add up to at most 2000 ms for chat, 1000 ms for
\* analyzeImage, 2000 ms for editImage and 30000 ms for generateImage.
C28_NoDelayAfterLastCall ==
    /\ (pc = "done" /\ Len(Calls) >= 1)
       => /\ Len(Delays) = Len(Calls) - 1
          /\ LastEvent.ev = "call"
    /\ op # "none" => Sum(DelayMs) <= MaxTotalDelay(op)

\* generateImage has used its whole schedule: six calls, 30000 ms of delay.
C28_Witness ==
    /\ op = "generateImage"
    /\ pc = "done"
    /\ Len(Calls) = defaultRetries + 1
    /\ Sum(DelayMs) = 30000

\* ----------------------------------------------------------------- C29
\* C29: the handler keeps the editing mode of the moment of the submit.
\* When a submission made with editing mode off ends successfully, no image
\* is selected afterwards; when an edit returns an image, that image is
\* selected afterwards, with type image/png.  Both hold whatever image was
\* attached or removed and whatever the mode was toggled to while the
\* operation was outstanding.
C29_CompletionClobbersImage ==
    /\ [][(~isLoading /\ isLoading') => sub'.isEditingMode = isEditingMode]_vars
    /\ [][(pc = "done" /\ isLoading /\ ~isLoading' /\ outcome.kind = "return")
          => /\ ~sub.isEditingMode => selectedImage' = ""
             /\ (sub.op = "editImage" /\ outcome.image # "")
                => selectedImage' = outcome.image /\ imageMimeType' = "image/png"]_vars

\* A chat submitted with editing mode off has returned, while an image was
\* attached and the editing mode switched on; the handler has yet to run on.
C29_Witness ==
    /\ pc = "done"
    /\ isLoading
    /\ outcome.kind = "return"
    /\ sub.op = "chat"
    /\ ~sub.isEditingMode
    /\ isEditingMode
    /\ selectedImage = uploadedImage

\* ----------------------------------------------------------------- C30
\* The awaited call settles, the delay elapses, and the handler runs on once
\* its operation has ended: the invocation leaves the call, the delay or the
\* ended state it is in.  (Such a step is possible in each of these states
\* and these are the steps that change pc.)
UIProgress ==
    /\ pc \in {"calling", "delaying", "done"}
    /\ pc' \in {"idle", "calling", "delaying", "done"} \ {pc}

UIFairSpec == UISpec /\ WF_pc(UIProgress)

\* C30: the step that accepts a submission sets isLoading and enters the
\* operation; isLoading is true for as long as the operation is outstanding
\* and only then; and, the backend calls completing, every submission comes
\* to set it back to false, whether its operation returned or raised.
C30_LoadingEndsWithOperation ==
    /\ [][(~isLoading /\ isLoading') => (pc = "idle" /\ pc' \in {"calling", "done"})]_vars
    /\ [](isLoading <=> pc # "idle")
    /\ [][(isLoading /\ ~isLoading') => (pc = "done" /\ outcome.kind \in {"return", "throw"})]_vars
    /\ isLoading ~> ~isLoading

\* The flag is down again after an operation that raised.
C30_Witness ==
    /\ ~isLoading
    /\ pc = "idle"
    /\ Len(messages) = 3
    /\ messages[3].isError
    /\ messages[3].errorCode = "UNKNOWN_ERROR"

\* C31: a submission that fails changes only the messages and the loading
\* flag.  The step that accepts it clears the input and leaves the selected
\* image, its type and the mode alone; the step that ends it in the catch
\* block appends the error turn, lowers the flag and leaves the selected
\* image, its type, the mode and the input as they are, so the prompt that
\* was cleared is not put back.
C31_FailureFrame ==
    /\ [][(~isLoading /\ isLoading') =>
            /\ input' = <<>>
            /\ selectedImage' = selectedImage
            /\ imageMimeType' = imageMimeType
            /\ isEditingMode' = isEditingMode]_vars
    /\ [][(pc = "done" /\ pc' = "idle" /\ ~succeeded) =>
            /\ Len(messages') = Len(messages) + 1
            /\ IsPrefix(messages, messages')
            /\ messages'[Len(messages')].isError
            /\ ~isLoading'
            /\ selectedImage' = selectedImage
            /\ imageMimeType' = imageMimeType
            /\ isEditingMode' = isEditingMode
            /\ input' = input]_vars

\* An analysis of an uploaded image failed: the image is still selected and
\* the prompt that was submitted is gone from the input.
C31_Witness ==
    /\ ~isLoading
    /\ Len(messages) = 3
    /\ messages[3].isError
    /\ messages[2].content = <<"h", "i">>
    /\ messages[2].image.data = uploadedImage
    /\ selectedImage = uploadedImage
    /\ ~isEditingMode
    /\ input = <<>>

\* C32: no two turns of the message sequence have the same id.
C32_DistinctIds ==
    \A a, b \in 1..Len(messages) : a # b => messages[a].id # messages[b].id

\* C33: while an operation on an attached image is outstanding, the media
\* type it declares to the backend is image/png, whatever type the user turn
\* shows for the attached image; the two agree only for a PNG.
C33_DeclaredTypeIsPng ==
    (isLoading /\ sub.op \in {"analyzeImage", "editImage"}) =>
        LET attached == messages[Len(messages)].image IN
            /\ attached.data = sub.image
            /\ attached.mime \in FileTypes
            /\ sub.mimeType = "image/png"
            /\ (sub.mimeType = attached.mime) <=> (attached.mime = "image/png")

\* A JPEG was uploaded and its analysis is being called for as a PNG.
C33_Witness ==
    /\ isLoading
    /\ pc = "calling"
    /\ sub.op = "analyzeImage"
    /\ sub.image = uploadedImage
    /\ sub.mimeType = "image/png"
    /\ messages[Len(messages)].role = "user"
    /\ messages[Len(messages)].image = DataUrl("image/jpeg", uploadedImage)

====
